---- MODULE Spec2Model ----
(***************************************************************************)
(* Model of daily_financial_update.py: one run of the script.              *)
(*                                                                         *)
(*   main() -> search_financial_news() -> analyze_market_data()            *)
(*          -> generate_investment_insights() -> create_notion_page()      *)
(*                                                                         *)
(* Strings are modelled as sequences of runs.  A run                       *)
(*     [k |-> text, n |-> a, m |-> b, lo |-> i, hi |-> j]                    *)
(* stands for the characters i..j of the text identified by (k, n, m):     *)
(* a literal of the source (k names it), a formatted date (k is the        *)
(* strftime format, n the day or minute), or a title/snippet delivered by  *)
(* the search provider (n the query, m the position in its answer).        *)
(* Lengths are the real lengths in code points, so that slicing a string   *)
(* and measuring it give what Python gives.                                *)
(***************************************************************************)
EXTENDS Integers, Sequences, FiniteSets, TLC

VARIABLES
    env,             \* NOTION_API_KEY, NOTION_DATABASE_ID, SERPER_API_KEY (lines 14-16)
    now,             \* the wall clock, in minutes
    pc,              \* position of the run in main() and its callees
    search_queries,  \* search_financial_news: the three query strings
    qi,              \* search_financial_news: index of the query the loop is at
    all_results,     \* search_financial_news: the accumulated entries
    news_results,    \* main: what search_financial_news returned
    market_data,     \* main: what analyze_market_data returned
    content,         \* main: what generate_investment_insights returned
    success,         \* main: what create_notion_page returned
    result,          \* what main() returned ("raised": an exception left it)
    exit_status,     \* the process exit status, -1 while running
    calls,           \* every network request issued, in order
    responses,       \* what the search provider answered, per request
    notion_response, \* what the destination answered
    stages           \* the stages of main() entered so far, in order

vars == <<env, now, pc, search_queries, qi, all_results, news_results, market_data,
          content, success, result, exit_status, calls, responses, notion_response,
          stages>>

----------------------------------------------------------------------------
(* Bounds of the model *)

\* the clock starts at most this many minutes before a midnight and is
\* followed until at most this many minutes from it
MaxElapsed == 1
\* the search provider returns at most this many organic entries
MaxOrganic == 4
\* longest news sequence handed to the composer on its own
MaxNews == 6
\* documents handed to the publisher on its own are this close to the
\* ends of the range of lengths around the block limit
MaxDocPad == 2

(* Constants of the program *)

ResultsPerQuery == 3
NewsLimit == 5
BlockLimit == 2000
SearchNum == 5
SearchTimeout == 10
NotionTimeout == 30
KeyEvents == 5

MinutesPerDay == 24 * 60

Min(a, b) == IF a <= b THEN a ELSE b

----------------------------------------------------------------------------
(* Strings *)

\* code-point lengths of the literals of the source
LitLen ==
    ("major financial news worldwide " :> 31) @@ (" stock market" :> 13) @@
    ("market movers stocks " :> 21) @@
    ("investment opportunities " :> 25) @@ (" emerging markets" :> 17) @@
    ("News Item" :> 9) @@ ("No description available" :> 24) @@
    ("**" :> 2) @@ ("**: " :> 4) @@ ("<blank line>" :> 2) @@
    ("# Market Overview - " :> 20) @@
    ("## Key Financial Events Worldwide" :> 33) @@
    ("Unable to fetch current news. Please check API configurations." :> 62) @@
    ("<rule>" :> 7) @@
    ("## Investment Opportunities for Aggressive Growth (Week Ahead)" :> 62) @@
    ("<high-conviction plays>" :> 615) @@
    ("## Cash Deployment Strategy (Month-to-Month)" :> 46) @@
    ("<cash deployment>" :> 582) @@
    ("## Risk Factors This Week" :> 28) @@
    ("<risk factors>" :> 250) @@
    ("## Week Ahead Catalysts" :> 25) @@
    ("<catalysts and disclaimer>" :> 464) @@
    ("**Data Sources**: " :> 18) @@
    (" news sources analyzed" :> 22) @@ ("<newline>" :> 1) @@
    ("**Generated**: " :> 15) @@
    ("Financial Intelligence - " :> 25)

Text(k, n, m, len) ==
    IF len <= 0 THEN <<>> ELSE <<[k |-> k, n |-> n, m |-> m, lo |-> 1, hi |-> len]>>

Lit(name) == Text(name, 0, 0, LitLen[name])

RECURSIVE StrLen(_)
StrLen(s) == IF s = <<>> THEN 0 ELSE (Head(s).hi - Head(s).lo + 1) + StrLen(Tail(s))

\* Python's s[:stop] on a string, stop >= 0
RECURSIVE StrSlice(_, _)
StrSlice(s, stop) ==
    IF s = <<>> \/ stop <= 0 THEN <<>>
    ELSE LET r == Head(s)
             len == r.hi - r.lo + 1
         IN  IF len <= stop THEN <<r>> \o StrSlice(Tail(s), stop - len)
             ELSE <<[r EXCEPT !.hi = r.lo + stop - 1]>>

\* the character at index i (1-based) of s: which text, and which place in it
RECURSIVE CharAt(_, _)
CharAt(s, i) ==
    LET r == Head(s)
        len == r.hi - r.lo + 1
    IN  IF i <= len THEN [k |-> r.k, n |-> r.n, m |-> r.m, at |-> r.lo + i - 1]
        ELSE CharAt(Tail(s), i - len)

\* Python's l[:stop] on a list, stop >= 0
ListSlice(l, stop) == SubSeq(l, 1, Min(stop, Len(l)))

\* Python's sep.join(parts)
RECURSIVE Join(_, _)
Join(sep, parts) ==
    IF parts = <<>> THEN <<>>
    ELSE IF Len(parts) = 1 THEN parts[1]
    ELSE parts[1] \o sep \o Join(sep, Tail(parts))

\* str(n) for a small non-negative integer
RECURSIVE Digits(_)
Digits(n) == IF n < 10 THEN 1 ELSE 1 + Digits(n \div 10)
IntStr(n) == Text("int", n, 0, Digits(n))

----------------------------------------------------------------------------
(* The clock and strftime *)

Day(t) == t \div MinutesPerDay

\* the clock values the model follows: around the midnight that ends day 0
Clock == (MinutesPerDay - MaxElapsed) .. (MinutesPerDay + MaxElapsed - 1)
Later(t) == {u \in Clock : u >= t}

\* length of the month name of a day (3, "May", to 9, "September")
MonthNameLen(d) == 3 + (d % 7)

\* strftime('%Y-%m-%d')
StrftimeISO(t) == Text("%Y-%m-%d", Day(t), 0, 10)
\* strftime('%B %d, %Y')
StrftimeLong(t) == Text("%B %d, %Y", Day(t), 0, MonthNameLen(Day(t)) + 10)
\* strftime('%Y-%m-%d %H:%M UTC')
StrftimeMinute(t) == Text("%Y-%m-%d %H:%M UTC", t, 0, 20)

----------------------------------------------------------------------------
(* Configuration: os.environ.get gives None ("<unset>") or a string *)

EnvValues == {"<unset>", "", "secret"}
Truthy(v) == v \notin {"<unset>", ""}

\* main's two presence checks, in the order of the code
ConfigMissingApiKeyOnly == ~Truthy(env.NOTION_API_KEY)
ConfigMissing == ~Truthy(env.NOTION_API_KEY) \/ ~Truthy(env.NOTION_DATABASE_ID)

----------------------------------------------------------------------------
(* search_financial_news *)

SearchQueries(t) ==
    << Lit("major financial news worldwide ") \o StrftimeISO(t) \o Lit(" stock market"),
       Lit("market movers stocks ") \o StrftimeISO(t),
       Lit("investment opportunities ") \o StrftimeISO(t) \o Lit(" emerging markets") >>

NumQueries == Len(SearchQueries(0))

\* One entry of an "organic" array.  A JSON object carries any of the keys
\* title and snippet; an entry may also be no object at all (a JSON string,
\* or one character of an "organic" that is itself a string).
Entry(type, keys, q, i) ==
    [type |-> type, keys |-> keys,
     title |-> Text("title", q, i, 20 + i), snippet |-> Text("snippet", q, i, 100 + i)]

KeySets == << {"title", "snippet"}, {"snippet"}, {"title"}, {} >>

\* the shapes of an answer's entries: objects (the first complete, the next
\* ones with the title, the snippet or both missing), or no objects
Patterns == {"objects", "nonobject"}

PatternEntry(pattern, q, i) ==
    CASE pattern = "objects"   -> Entry("object", KeySets[((i - 1) % 4) + 1], q, i)
      [] pattern = "nonobject" -> Entry("string", {}, q, i)

NoEntries == <<>>

\* what a search request can come back with
SearchResponse(outcome, status, json, organic, entries) ==
    [outcome |-> outcome, status |-> status, json |-> json, organic |-> organic,
     entries |-> entries]

SearchResponses(q) ==
    { SearchResponse("transport_error", 0, "none", "none", NoEntries),
      SearchResponse("response", 500, "invalid", "none", NoEntries),
      SearchResponse("response", 200, "invalid", "none", NoEntries),
      SearchResponse("response", 200, "non_object", "none", NoEntries),
      SearchResponse("response", 200, "object", "absent", NoEntries),
      SearchResponse("response", 200, "object", "unsliceable", NoEntries) }
    \cup
    { SearchResponse("response", 200, "object", "sequence",
                     [i \in 1..n |-> PatternEntry(p, q, i)]) :
        n \in 0..MaxOrganic, p \in Patterns }

\* lines 56-63: what one request adds to all_results.  requests.post raising,
\* response.json() raising, "'organic' in data" raising on a scalar, and
\* slicing a null or a number all end in the except clause.
ExtractedAll(resp) ==
    IF resp.outcome = "response" /\ resp.status = 200 /\ resp.json = "object"
       /\ resp.organic = "sequence"
    THEN resp.entries
    ELSE <<>>

Extracted(resp) ==
    IF resp.outcome = "response" /\ resp.status = 200 /\ resp.json = "object"
       /\ resp.organic = "sequence"
    THEN ListSlice(resp.entries, ResultsPerQuery)
    ELSE <<>>

\* the for loop: the query after the one just handled
NextQueryRetry(i, resp) ==
    IF resp.outcome = "response" /\ resp.status = 200 THEN i + 1 ELSE i
NextQuery(i, resp) == i + 1

----------------------------------------------------------------------------
(* analyze_market_data *)

NoMarketData == [indices |-> <<>>, top_movers |-> <<>>, sentiment |-> ""]
AnalyzeMarketData == [indices |-> <<>>, top_movers |-> <<>>, sentiment |-> "Mixed"]

----------------------------------------------------------------------------
(* generate_investment_insights *)

\* item.get(key, default)
Get(item, key, default) == IF key \in item.keys THEN item[key] ELSE default

\* the items the list comprehension walks
SummaryItemsAll(news) == news
SummaryItems(news) == ListSlice(news, NewsLimit)

\* item.get on something that is no dict raises AttributeError
GenerateRaises(news) ==
    \E i \in 1..Len(SummaryItems(news)) : SummaryItems(news)[i].type # "object"

Bullet(item) ==
    Lit("**") \o Get(item, "title", Lit("News Item")) \o Lit("**: ")
       \o Get(item, "snippet", Lit("No description available"))

NewsSummary(news) ==
    Join(Lit("<blank line>"), [i \in 1..Len(SummaryItems(news)) |-> Bullet(SummaryItems(news)[i])])

Fallback == Lit("Unable to fetch current news. Please check API configurations.")

\* {news_summary if news_summary else "Unable to fetch ..."}
NewsSectionNoFallback(news_summary) == news_summary
NewsSection(news_summary) == IF news_summary # <<>> THEN news_summary ELSE Fallback

\* the f-string of lines 103-176; t1 is the clock at line 95, t2 at line 175
GenerateInvestmentInsights(news, t1, t2) ==
    Lit("# Market Overview - ") \o StrftimeLong(t1) \o Lit("<blank line>")
    \o Lit("## Key Financial Events Worldwide") \o Lit("<blank line>")
    \o NewsSection(NewsSummary(news))
    \o Lit("<rule>")
    \o Lit("## Investment Opportunities for Aggressive Growth (Week Ahead)")
    \o Lit("<high-conviction plays>")
    \o Lit("## Cash Deployment Strategy (Month-to-Month)")
    \o Lit("<cash deployment>")
    \o Lit("## Risk Factors This Week")
    \o Lit("<risk factors>")
    \o Lit("## Week Ahead Catalysts")
    \o Lit("<catalysts and disclaimer>")
    \o Lit("**Data Sources**: ") \o IntStr(Len(news)) \o Lit(" news sources analyzed")
    \o Lit("<newline>")
    \o Lit("**Generated**: ") \o StrftimeMinute(t2) \o Lit("<newline>")

----------------------------------------------------------------------------
(* create_notion_page *)

\* content[:2000]
ContentBlockWhole(c) == c
ContentBlock(c) == StrSlice(c, BlockLimit)

NoPage == [database_id |-> "", title |-> <<>>, date |-> <<>>, sentiment |-> "",
           key_events |-> 0, block |-> <<>>]

\* page_data, lines 185-231; t is the clock at line 185
PageData(c, t) ==
    [database_id |-> env.NOTION_DATABASE_ID,
     title       |-> Lit("Financial Intelligence - ") \o StrftimeLong(t),
     date        |-> StrftimeISO(t),
     sentiment   |-> "Mixed",
     key_events  |-> KeyEvents,
     block       |-> ContentBlock(c)]

NoResponse == [outcome |-> "none", status |-> 0, json |-> "none"]

\* what the record-create request can come back with: the body of a 200 is
\* a JSON object, some other JSON value, or no JSON
NotionResponses ==
    { [outcome |-> "transport_error", status |-> 0, json |-> "none"],
      [outcome |-> "response", status |-> 400, json |-> "object"],
      [outcome |-> "response", status |-> 200, json |-> "object"],
      [outcome |-> "response", status |-> 200, json |-> "non_object"],
      [outcome |-> "response", status |-> 200, json |-> "invalid"] }

\* lines 233-252: response.json().get('url') sits inside the try, so a body
\* that is no JSON object ends in the except clause
CreateResult(resp) ==
    IF resp.outcome = "transport_error" THEN FALSE
    ELSE IF resp.status = 200 THEN resp.json = "object"
    ELSE FALSE

----------------------------------------------------------------------------
(* Network requests, as the log records them *)

SearchCall(q) == [api |-> "search", query |-> q, num |-> SearchNum,
                  timeout |-> SearchTimeout, page |-> NoPage]
NotionCall(page) == [api |-> "notion", query |-> <<>>, num |-> 0,
                     timeout |-> NotionTimeout, page |-> page]

----------------------------------------------------------------------------
(* main: the order of its stages *)

\* where main() goes after a stage; ok tells whether the stage went well
\* (the presence checks passed, no exception left the composer)
MainNextRetry(stage, ok) ==
    CASE stage = "validate" -> IF ok THEN "fetch" ELSE "return"
      [] stage = "fetch"    -> "analyze"
      [] stage = "analyze"  -> "compose"
      [] stage = "compose"  -> IF ok THEN "publish" ELSE "raised"
      [] stage = "publish"  -> IF ok THEN "finish" ELSE "publish"

MainNext(stage, ok) ==
    CASE stage = "validate" -> IF ok THEN "fetch" ELSE "return"
      [] stage = "fetch"    -> "analyze"
      [] stage = "analyze"  -> "compose"
      [] stage = "compose"  -> IF ok THEN "publish" ELSE "raised"
      [] stage = "publish"  -> "finish"

----------------------------------------------------------------------------
(* Initial states *)

Fresh ==
    /\ search_queries = <<>>
    /\ qi = 0
    /\ all_results = <<>>
    /\ market_data = NoMarketData
    /\ success = "none"
    /\ result = "none"
    /\ exit_status = -1
    /\ calls = <<>>
    /\ responses = <<>>
    /\ notion_response = NoResponse
    /\ stages = <<>>

\* the script is started: any environment, any time of day
Init ==
    /\ env \in [NOTION_API_KEY : EnvValues, NOTION_DATABASE_ID : EnvValues,
                SERPER_API_KEY : EnvValues]
    /\ now \in Clock
    /\ pc = "validate"
    /\ news_results = <<>>
    /\ content = <<>>
    /\ Fresh

----------------------------------------------------------------------------
(* The steps of a run *)

\* main, lines 259-271
Validate ==
    /\ pc = "validate"
    /\ stages' = Append(stages, "validate")
    /\ pc' = MainNext("validate", ~ConfigMissing)
    /\ result' = IF ConfigMissing THEN "False" ELSE result
    /\ UNCHANGED <<env, now, search_queries, qi, all_results, news_results, market_data,
                   content, success, exit_status, calls, responses, notion_response>>

\* search_financial_news, lines 32-41
SearchBegin ==
    /\ pc = "fetch"
    /\ stages' = Append(stages, "fetch")
    /\ search_queries' = SearchQueries(now)
    /\ all_results' = <<>>
    /\ qi' = 1
    /\ pc' = "search_loop"
    /\ UNCHANGED <<env, now, news_results, market_data, content, success, result,
                   exit_status, calls, responses, notion_response>>

\* one turn of the loop with a provider key, lines 44-63: the request, its
\* answer after some time, and what is kept of it
SearchQuery ==
    /\ pc = "search_loop"
    /\ qi \in 1..Len(search_queries)
    /\ Truthy(env.SERPER_API_KEY)
    /\ \E resp \in SearchResponses(qi), t \in Later(now) :
         /\ calls' = Append(calls, SearchCall(search_queries[qi]))
         /\ responses' = Append(responses, resp)
         /\ all_results' = all_results \o Extracted(resp)
         /\ qi' = NextQuery(qi, resp)
         /\ now' = t
    /\ UNCHANGED <<env, pc, search_queries, news_results, market_data, content, success,
                   result, exit_status, notion_response, stages>>

\* one turn of the loop without a provider key, lines 64-66
SkipQuery ==
    /\ pc = "search_loop"
    /\ qi \in 1..Len(search_queries)
    /\ ~Truthy(env.SERPER_API_KEY)
    /\ qi' = qi + 1
    /\ UNCHANGED <<env, now, pc, search_queries, all_results, news_results, market_data,
                   content, success, result, exit_status, calls, responses,
                   notion_response, stages>>

\* line 68, and main line 275
SearchReturn ==
    /\ pc = "search_loop"
    /\ qi > Len(search_queries)
    /\ news_results' = all_results
    /\ pc' = MainNext("fetch", TRUE)
    /\ UNCHANGED <<env, now, search_queries, qi, all_results, market_data, content,
                   success, result, exit_status, calls, responses, notion_response,
                   stages>>

\* main line 280
Analyze ==
    /\ pc = "analyze"
    /\ stages' = Append(stages, "analyze")
    /\ market_data' = AnalyzeMarketData
    /\ pc' = MainNext("analyze", TRUE)
    /\ UNCHANGED <<env, now, search_queries, qi, all_results, news_results, content,
                   success, result, exit_status, calls, responses, notion_response>>

\* main line 285: the clock is read at line 95 and again at line 175
Generate ==
    /\ pc = "compose"
    /\ stages' = Append(stages, "compose")
    /\ pc' = MainNext("compose", ~GenerateRaises(news_results))
    /\ IF GenerateRaises(news_results)
       THEN /\ result' = "raised"
            /\ UNCHANGED <<content, now>>
       ELSE /\ \E t2 \in Later(now) :
                 /\ content' = GenerateInvestmentInsights(news_results, now, t2)
                 /\ now' = t2
            /\ UNCHANGED result
    /\ UNCHANGED <<env, search_queries, qi, all_results, news_results, market_data,
                   success, exit_status, calls, responses, notion_response>>

\* main line 290: create_notion_page, lines 185-252.  The clock is read at
\* line 185 and never again in the run, so its later course is left out.
CreatePage ==
    /\ pc = "publish"
    /\ stages' = Append(stages, "publish")
    /\ \E resp \in NotionResponses :
         /\ calls' = Append(calls, NotionCall(PageData(content, now)))
         /\ notion_response' = resp
         /\ success' = IF CreateResult(resp) THEN "True" ELSE "False"
         /\ pc' = MainNext("publish", CreateResult(resp))
    /\ UNCHANGED <<env, now, search_queries, qi, all_results, news_results, market_data,
                   content, result, exit_status, responses>>

\* main lines 292-297
Finish ==
    /\ pc = "finish"
    /\ result' = success
    /\ pc' = "return"
    /\ UNCHANGED <<env, now, search_queries, qi, all_results, news_results, market_data,
                   content, success, exit_status, calls, responses, notion_response,
                   stages>>

\* lines 300-302; an exception that leaves main() ends the interpreter with
\* status 1 as well
Exit ==
    /\ pc \in {"return", "raised"}
    /\ exit_status' = IF result = "True" THEN 0 ELSE 1
    /\ pc' = "exited"
    /\ UNCHANGED <<env, now, search_queries, qi, all_results, news_results, market_data,
                   content, success, result, calls, responses, notion_response, stages>>

Next ==
    \/ Validate
    \/ SearchBegin
    \/ SearchQuery
    \/ SkipQuery
    \/ SearchReturn
    \/ Analyze
    \/ Generate
    \/ CreatePage
    \/ Finish
    \/ Exit

Spec == Init /\ [][Next]_vars

----------------------------------------------------------------------------
(* generate_investment_insights on its own: any sequence of news items *)

\* news_results: List[Dict], up to MaxNews objects.  Which keys the item at
\* place i carries is set by a starting point and a stride through KeySets,
\* so that complete items and items lacking the title, the snippet or both
\* come in every order.
NewsInput(n, start, stride) ==
    [i \in 1..n |-> Entry("object", KeySets[((start + stride * i) % Len(KeySets)) + 1], 0, i)]

NewsInputs ==
    { NewsInput(n, start, stride) :
        n \in 0..MaxNews, start \in 1..Len(KeySets), stride \in 0..(Len(KeySets) - 1) }

InitCompose ==
    /\ env = [NOTION_API_KEY |-> "secret", NOTION_DATABASE_ID |-> "secret",
              SERPER_API_KEY |-> "secret"]
    /\ now \in Clock
    /\ pc = "compose"
    /\ news_results \in NewsInputs
    /\ content = <<>>
    /\ Fresh

NextCompose == Generate

SpecCompose == InitCompose /\ [][NextCompose]_vars

----------------------------------------------------------------------------
(* create_notion_page on its own: any document *)

\* lengths near zero and on both sides of the block limit
DocLengths == (0..MaxDocPad) \cup ((BlockLimit - MaxDocPad)..(BlockLimit + MaxDocPad))

\* documents of two texts, so that the limit falls in the first text, in the
\* second, between them, or beyond the end
Documents == { Text("document", 1, 0, a) \o Text("document", 2, 0, b) : a, b \in DocLengths }

InitPublish ==
    /\ env = [NOTION_API_KEY |-> "secret", NOTION_DATABASE_ID |-> "secret",
              SERPER_API_KEY |-> "secret"]
    /\ now \in Clock
    /\ pc = "publish"
    /\ news_results = <<>>
    /\ content \in Documents
    /\ Fresh

NextPublish == CreatePage

SpecPublish == InitPublish /\ [][NextPublish]_vars

----------------------------------------------------------------------------
(* What the claims read off a state *)

SearchCalls == SelectSeq(calls, LAMBDA c : c.api = "search")
NotionCalls == SelectSeq(calls, LAMBDA c : c.api = "notion")

RequiredConfigPresent == Truthy(env.NOTION_API_KEY) /\ Truthy(env.NOTION_DATABASE_ID)

\* search_financial_news has returned
FetchDone == Len(stages) >= 2 /\ pc \notin {"fetch", "search_loop"}

IsPrefix(s, t) == Len(s) <= Len(t) /\ \A i \in 1..Len(s) : s[i] = t[i]

RECURSIVE Flatten(_)
Flatten(ss) == IF ss = <<>> THEN <<>> ELSE Head(ss) \o Flatten(Tail(ss))

\* the indices of the runs of s that belong to text k, ascending
RECURSIVE IndicesFrom(_, _, _)
IndicesFrom(s, k, i) ==
    IF i > Len(s) THEN <<>>
    ELSE (IF s[i].k = k THEN <<i>> ELSE <<>>) \o IndicesFrom(s, k, i + 1)
Indices(s, k) == IndicesFrom(s, k, 1)

\* the days named by the formatted dates inside a string
DaysIn(s) == { s[i].n : i \in { j \in 1..Len(s) : s[j].k \in {"%Y-%m-%d", "%B %d, %Y"} } }

----------------------------------------------------------------------------
(* Claims *)

\* C1: when either required configuration value is missing (unset or empty),
\* the run never leaves the presence checks: no network request is ever
\* issued, main() returns False and the process exits with status 1.
C1_MissingConfigFailsWithoutNetwork ==
    (~Truthy(env.NOTION_API_KEY) \/ ~Truthy(env.NOTION_DATABASE_ID)) =>
        /\ calls = <<>>
        /\ pc \in {"validate", "return", "exited"}
        /\ pc \in {"return", "exited"} => result = "False"
        /\ pc = "exited" => exit_status = 1

\* C1 witness: a finished run that had the API key and a provider key but
\* no database id.
C1_Witness ==
    /\ pc = "exited"
    /\ Truthy(env.NOTION_API_KEY)
    /\ ~Truthy(env.NOTION_DATABASE_ID)
    /\ Truthy(env.SERPER_API_KEY)
    /\ result = "False"
    /\ calls = <<>>

\* C2 (as claimed): with both required configuration values present no
\* exception leaves main(), whatever the search provider answers, and the
\* run succeeds (exit status 0) exactly when create_notion_page returned
\* True and fails (exit status 1) exactly when it returned False.
C2_OnlyPublishDecides ==
    RequiredConfigPresent =>
        /\ pc # "raised"
        /\ result # "raised"
        /\ pc = "exited" =>
              /\ success \in {"True", "False"}
              /\ result = success
              /\ exit_status = (IF success = "True" THEN 0 ELSE 1)

\* C3 (as claimed): create_notion_page returns True whenever the
\* record-create request completed with status 200, and False on every
\* other status and on a transport failure.
C3_CreateSucceedsExactlyOn200 ==
    notion_response.outcome # "none" =>
        /\ success \in {"True", "False"}
        /\ (success = "True") <=>
              (notion_response.outcome = "response" /\ notion_response.status = 200)

\* the organic entries a request delivered: those of a status-200 answer
OrganicEntries(resp) ==
    IF resp.outcome = "response" /\ resp.status = 200 THEN resp.entries ELSE <<>>

FirstUpTo3(l) == [i \in 1..Min(3, Len(l)) |-> l[i]]

\* C4: with a provider key, whatever each query comes back with, the
\* accumulated results are at every moment the concatenation, in query order
\* then answer order, of the first up-to-3 organic entries of the status-200
\* answers so far; a failed query adds nothing and the loop still issues all
\* three requests; what main() receives is that concatenation.
C4_FetchReturnsConcatenation ==
    Truthy(env.SERPER_API_KEY) /\ pc # "validate" /\ pc # "fetch" /\ RequiredConfigPresent =>
        /\ all_results =
              Flatten([i \in 1..Len(responses) |-> FirstUpTo3(OrganicEntries(responses[i]))])
        /\ pc = "search_loop" => Len(responses) = qi - 1
        /\ FetchDone => /\ Len(responses) = 3
                        /\ news_results = all_results

\* C4 witness: the fetch has returned after a status 500, a transport
\* failure and a status-200 answer of four entries, of which three are kept.
C4_Witness ==
    /\ FetchDone
    /\ Len(responses) = 3
    /\ responses[1].outcome = "response" /\ responses[1].status = 500
    /\ responses[2].outcome = "transport_error"
    /\ responses[3].status = 200 /\ Len(responses[3].entries) = 4
    /\ Len(news_results) = 3

\* C5: a run issues at most 3 search requests and never the same query
\* twice; once the fetch has returned there was exactly one request per
\* query, in query order, if a provider key is configured, and no request
\* and an empty result if none is.
C5_OneRequestPerQueryNoRetry ==
    /\ Len(SearchCalls) <= 3
    /\ \A i, j \in 1..Len(SearchCalls) : i # j => SearchCalls[i].query # SearchCalls[j].query
    /\ FetchDone =>
          IF Truthy(env.SERPER_API_KEY)
          THEN [i \in 1..Len(SearchCalls) |-> SearchCalls[i].query] = search_queries
          ELSE SearchCalls = <<>> /\ news_results = <<>>

\* C5 witness: the fetch has returned with a provider key after every one of
\* its three requests failed.
C5_Witness ==
    /\ FetchDone
    /\ Truthy(env.SERPER_API_KEY)
    /\ Len(SearchCalls) = 3
    /\ \A i \in 1..3 : responses[i].outcome = "transport_error" \/ responses[i].status # 200

\* C6: the stages of a run are entered in the order credential check, fetch,
\* analysis, compose, publish, each at most once; at most one record-create
\* request is issued, and no search request follows it.
C6_StagesInOrderOnce ==
    /\ IsPrefix(stages, <<"validate", "fetch", "analyze", "compose", "publish">>)
    /\ Len(NotionCalls) <= 1
    /\ \A i, j \in 1..Len(calls) :
          (i < j /\ calls[i].api = "notion") => calls[j].api # "search"
    /\ NotionCalls # <<>> => FetchDone /\ Len(stages) = 5

\* C6 witness: a finished run whose one record-create request failed after
\* three search requests.
C6_Witness ==
    /\ pc = "exited"
    /\ success = "False"
    /\ Len(SearchCalls) = 3
    /\ Len(NotionCalls) = 1
    /\ calls[4].api = "notion"

\* C7: the content block of the record-create request holds the first
\* min(len(document), 2000) characters of the document, character by
\* character.
C7_BlockIsPrefixOfLengthMin ==
    \A c \in 1..Len(NotionCalls) :
        LET block == NotionCalls[c].page.block
        IN  /\ StrLen(block) = Min(StrLen(content), 2000)
            /\ \A i \in 1..StrLen(block) : CharAt(block, i) = CharAt(content, i)

\* C7 witness: a document of 2001 characters in two texts has been sent.
C7_Witness ==
    /\ NotionCalls # <<>>
    /\ Len(content) = 2
    /\ StrLen(content) = 2001
    /\ StrLen(NotionCalls[1].page.block) = 2000

\* the places of the bullets of a document: each bullet has one "**: "
BulletPlaces(doc) == Indices(doc, "**: ")

\* C8: the composed document holds min(n, 5) bullets; the j-th bullet shows
\* the title and the snippet of the j-th news item, with "News Item" for a
\* missing title and "No description available" for a missing snippet; no
\* text of a later item appears anywhere.
C8_AtMostFiveBulletsInOrder ==
    pc = "publish" =>
        LET n == Len(news_results)
            places == BulletPlaces(content)
        IN  /\ Len(places) = Min(n, 5)
            /\ \A j \in 1..Len(places) :
                  LET item == news_results[j]
                      p == places[j]
                  IN  /\ content[p - 1] =
                            (IF "title" \in item.keys THEN item.title
                             ELSE Lit("News Item"))[1]
                      /\ content[p + 1] =
                            (IF "snippet" \in item.keys THEN item.snippet
                             ELSE Lit("No description available"))[1]
            /\ \A i \in 1..Len(content) :
                  content[i].k \in {"title", "snippet"} => content[i].m <= 5

\* C8 witness: a document composed from six items, of which one of the
\* first five lacks its title and one its snippet.
C8_Witness ==
    /\ pc = "publish"
    /\ Len(news_results) = 6
    /\ \E i \in 1..5 : "title" \notin news_results[i].keys
    /\ \E i \in 1..5 : "snippet" \notin news_results[i].keys
    /\ "title" \in news_results[6].keys

\* the first place of text k in a document
FirstPlace(doc, k) == Indices(doc, k)[1]

\* the news section: what stands between the blank line after the first
\* header and the rule before the second
NewsPart(doc) == SubSeq(doc, 6, FirstPlace(doc, "<rule>") - 1)

\* the document without its news section and without its footer (the count
\* of news items and the generation time)
Frame(doc) ==
    SubSeq(doc, 1, 5)
    \o SubSeq(doc, FirstPlace(doc, "<rule>"), FirstPlace(doc, "**Data Sources**: ") - 1)

SectionHeaders ==
    { "## Key Financial Events Worldwide",
      "## Investment Opportunities for Aggressive Growth (Week Ahead)",
      "## Cash Deployment Strategy (Month-to-Month)",
      "## Risk Factors This Week",
      "## Week Ahead Catalysts" }

\* C9: composing from an empty news sequence puts the fallback sentence in
\* the place of the bullets; for every news sequence the document outside the
\* news section and the footer is the same as that of an empty-news run at
\* the same clock readings, and every fixed section header is in it.
C9_EmptyNewsFallbackSameFrame ==
    [][ (pc = "compose" /\ pc' = "publish") =>
           /\ news_results = <<>> => NewsPart(content') = Fallback
           /\ news_results # <<>> => NewsPart(content') # Fallback
           /\ Frame(content') = Frame(GenerateInvestmentInsights(<<>>, now, now'))
           /\ \A h \in SectionHeaders : Indices(content', h) # <<>>
      ]_vars

\* C9 witness: a document composed from an empty news sequence.
C9_Witness ==
    /\ pc = "publish"
    /\ news_results = <<>>
    /\ NewsPart(content) = Fallback

\* the days named by the dates a run has emitted: in its search queries, in
\* the document header, in the record title and in the record's date
DaysEmitted ==
    UNION { DaysIn(calls[i].query) \cup DaysIn(calls[i].page.title)
              \cup DaysIn(calls[i].page.date) : i \in 1..Len(calls) }
    \cup DaysIn(SubSeq(content, 1, Min(2, Len(content))))

\* C10 (as claimed): all dates a run emits denote the same calendar day.
C10_OneCalendarDay == Cardinality(DaysEmitted) <= 1

====
